---- MODULE Spec2Model ----
(***************************************************************************)
(* A model of msocks.Session (src/msocks/session.go): the port table and   *)
(* its lock, the carrier write path, the read loop with its SYN and DNS    *)
(* handlers, the per-SYN target-dial task, and the callers Dial, LookupIP  *)
(* and Close.                                                              *)
(***************************************************************************)
EXTENDS Integers, Sequences, FiniteSets, TLC

(* ---------------------------- bounds ----------------------------------- *)

\* streamids are uint16 in the code; the model keeps IdBits bits of them
IdBits == 2
\* frames the read loop reads from the carrier
MaxFrames == 2
\* FrameSender objects created (NewConn, CreateChanFrameSender)
MaxFS == 2
\* concurrent callers of Dial / LookupIP / Close
NUsers == 1
\* calls each caller makes
MaxCalls == 2
\* pieces in which the carrier takes one frame's packed bytes
FrameParts == 2
\* the peer puts streamids 0 .. MaxPeerId in the frames it sends
MaxPeerId == 1

IdSpace == 2 ^ IdBits
Ids == 0 .. (IdSpace - 1)
FSs == 1 .. MaxFS
PeerIds == 0 .. MaxPeerId
Nil == 0
\* no streamid: a value outside the ids
NoId == IdSpace

(* --------------------------- processes --------------------------------- *)

Run == <<"run", 0>>
User(u) == <<"user", u>>
Task(c) == <<"task", c>>
Users == {User(u) : u \in 1 .. NUsers}
Tasks == {Task(c) : c \in FSs}
Procs == {Run} \cup Users \cup Tasks
Free == <<"free", 0>>

(* ----------------------------- frames ---------------------------------- *)

\* a frame: its kind, streamid and payload; at is not in the frame: it is
\* the number of pieces that were on the wire when the read loop read it
Frame(k, i, x) == [kind |-> k, id |-> i, x |-> x, at |-> 0]
NoFrame == Frame("none", 0, "")
\* the frames Run hands to sendFrameInChan
ChanKinds == {"RESULT", "DATA", "WND", "FIN", "RST"}
DnsPayloads == {"query", "response", "garbage"}
InFrames ==
    {Frame(k, i, "") : k \in ChanKinds \cup {"SYN"}, i \in PeerIds}
        \cup {Frame("DNS", i, x) : i \in PeerIds, x \in DnsPayloads}
        \cup {Frame("PING", 0, ""), Frame("SPAM", 0, "")}

NewFrameResult(id, code) == Frame("RESULT", id, code)
NewFrameDns(id, x) == Frame("DNS", id, x)
NewFrameSyn(id) == Frame("SYN", id, "")

VARIABLES
    next_id,    \* Session.next_id
    ports,      \* Session.ports: streamid -> FrameSender, Nil when absent
    closed,     \* Session.closed
    plock,      \* Session.plock: Free, or the process that holds it
    wlock,      \* Session.wlock: Free, or the process that holds it
    carrier,    \* Session.Conn: "open" or "closed"
    wire,       \* the pieces written to the carrier, in order
    nwrites,    \* Conn.Write calls made so far
    nfs,        \* FrameSender objects created so far
    fskind,     \* FrameSender -> "none", "conn", "chan"
    status,     \* Conn.status
    notified,   \* FrameSenders for which CloseFrame has been dispatched
    pc,         \* position of every process
    cur,        \* the frame the read loop is handling
    newc,       \* per process: the FrameSender it created / looked up
    sf,         \* per process: the SendFrame call in progress
    sid,        \* per caller: the streamid PutIntoNextId returned to it
    nread,      \* frames read so far
    delivered,  \* deliveries made by sendFrameInChan, in order
    calls,      \* calls each caller has started
    fsid,       \* Conn.streamid
    init_id,    \* the next_id NewSession was given
    expired,    \* the streamids whose LookupIP waiter timed out
    ranOut,     \* a PutIntoNextId call ran out of streamids
    collided,   \* an incoming SYN met an occupied streamid
    sendFailed  \* the processes a SendFrame call returned an error to

vars == <<next_id, ports, closed, plock, wlock, carrier, wire, nwrites, nfs,
          fskind, status, notified, pc, cur, newc, sf, sid, nread,
          delivered, calls, fsid,
          init_id, expired, ranOut, collided, sendFailed>>

NoSF == [f |-> NoFrame, w |-> 0, n |-> 0, ok |-> "", ko |-> ""]

\* NewSession: next_id as given, empty port table, not closed
InitNextIds == {0, 1}

\* a session with the port table pt whose goroutines and callers are at
\* their start
Start(pt) ==
    /\ next_id \in InitNextIds
    /\ init_id = next_id
    /\ ports = pt
    /\ closed = FALSE
    /\ plock = Free
    /\ wlock = Free
    /\ carrier = "open"
    /\ wire = <<>>
    /\ nwrites = 0
    /\ nfs = 0
    /\ fskind = [c \in FSs |-> "none"]
    /\ status = [c \in FSs |-> "UNKNOWN"]
    /\ notified = {}
    /\ pc = [p \in Procs |-> IF p = Run THEN "read"
                             ELSE IF p \in Users THEN "idle" ELSE "none"]
    /\ cur = NoFrame
    /\ newc = [p \in Procs |-> Nil]
    /\ sf = [p \in Procs |-> NoSF]
    /\ sid = [p \in Users |-> NoId]
    /\ nread = 0
    /\ delivered = <<>>
    /\ calls = [p \in Users |-> 0]
    /\ fsid = [c \in FSs |-> 0]
    /\ collided = FALSE
    /\ sendFailed = {}
    /\ expired = {}
    /\ ranOut = FALSE

Init == Start([i \in Ids |-> Nil])

\* the FrameSender of a stream that was set up earlier in the session's
\* life and is still in the port table
Earlier == MaxFS + 1

\* a session late in its life: every streamid but one is taken by an
\* earlier stream, and next_id is back where it started
InitLate ==
    \E free \in PeerIds :
        Start([i \in Ids |-> IF i = free THEN Nil ELSE Earlier])

(* ------------------------- the port table ------------------------------ *)

\* plock.Lock / plock.RLock return only when no writer holds the lock
PLockFree(l) == l = Free

\* _, ok := s.ports[id]
IdPresent(pt, id) == pt[id] # Nil

\* s.next_id += 1 in the scan loop, on a uint16
ScanStep(n) == (n + 1) % IdSpace

\* s.next_id += 2 after the slot was taken
AdvanceNextId(n) == (n + 2) % IdSpace

\* the scan loop of PutIntoNextId: the first id from n on that is not in
\* the table, or running out when the scan is back at start
RECURSIVE Scan(_, _, _)
Scan(pt, n, start) ==
    IF ~IdPresent(pt, n) THEN [err |-> "nil", n |-> n]
    ELSE IF ScanStep(n) = start THEN [err |-> "RunOut", n |-> start]
    ELSE Scan(pt, ScanStep(n), start)

\* the body of PutIntoNextId under plock; unlocked tells whether the return
\* path taken released the lock
PutIntoNextId(pt, nid, fs) ==
    LET r == Scan(pt, nid, nid) IN
    IF r.err # "nil"
    THEN [err |-> r.err, id |-> 0, next_id |-> r.n, ports |-> pt,
          unlocked |-> FALSE]
    ELSE [err |-> "nil", id |-> r.n, next_id |-> AdvanceNextId(r.n),
          ports |-> [pt EXCEPT ![r.n] = fs], unlocked |-> TRUE]

\* PutIntoId without the check that the id is free
PutIntoId_Overwrite(pt, id, fs) ==
    [err |-> "nil", ports |-> [pt EXCEPT ![id] = fs], unlocked |-> TRUE]

\* the body of PutIntoId under plock
PutIntoId(pt, id, fs) ==
    IF IdPresent(pt, id)
    THEN [err |-> "IDEXIST", ports |-> pt, unlocked |-> FALSE]
    ELSE [err |-> "nil", ports |-> [pt EXCEPT ![id] = fs], unlocked |-> TRUE]

\* RemovePort that leaves the entry in the table
RemovePort_Keep(pt, id) == [err |-> "nil", ports |-> pt, unlocked |-> TRUE]

\* the body of RemovePort under plock
RemovePort(pt, id) ==
    IF ~IdPresent(pt, id)
    THEN [err |-> "NotExist", ports |-> pt, unlocked |-> FALSE]
    ELSE [err |-> "nil", ports |-> [pt EXCEPT ![id] = Nil], unlocked |-> TRUE]

\* the lock after an operation of p that did or did not unlock it
AfterOp(p, unlocked) == IF unlocked THEN Free ELSE p

(* ------------------------- Session.SendFrame --------------------------- *)

\* SendFrame without the write mutex
WLockFree_Never(l) == TRUE

\* wlock.Lock returns only when nobody holds the mutex
WLockFree(l) == l = Free

Piece(w, f, k) == [w |-> w, f |-> f, part |-> k]

\* SendFrame up to the first piece of Conn.Write; ok and ko are where the
\* caller goes on when SendFrame returns nil or an error
SendFrame_Begin(p, f, ok, ko) ==
    /\ WLockFree(wlock)
    /\ \/ /\ carrier = "open"
          /\ wire' = Append(wire, Piece(nwrites + 1, f, 1))
          /\ nwrites' = nwrites + 1
          /\ wlock' = p
          /\ sf' = [sf EXCEPT ![p] = [f |-> f, w |-> nwrites + 1, n |-> 1,
                                      ok |-> ok, ko |-> ko]]
          /\ pc' = [pc EXCEPT ![p] = "sf_write"]
          /\ UNCHANGED <<sendFailed, cur>>
       \/ /\ sendFailed' = sendFailed \cup {p}
          /\ pc' = [pc EXCEPT ![p] = ko]
          /\ cur' = IF p = Run THEN NoFrame ELSE cur
          /\ UNCHANGED <<wire, nwrites, wlock, sf>>

\* Conn.Write goes on under wlock: the next piece, or it stops with an
\* error or short; then Unlock and return
SendFrame_Write(p) ==
    /\ pc[p] = "sf_write"
    /\ \/ /\ carrier = "open"
          /\ wire' = Append(wire, Piece(sf[p].w, sf[p].f, sf[p].n + 1))
          /\ IF sf[p].n + 1 = FrameParts
             THEN /\ wlock' = Free
                  /\ pc' = [pc EXCEPT ![p] = sf[p].ok]
                  /\ sf' = [sf EXCEPT ![p] = NoSF]
                  /\ cur' = IF p = Run THEN NoFrame ELSE cur
             ELSE /\ sf' = [sf EXCEPT ![p].n = @ + 1]
                  /\ UNCHANGED <<wlock, pc, cur>>
          /\ UNCHANGED sendFailed
       \/ /\ sendFailed' = sendFailed \cup {p}
          /\ wlock' = Free
          /\ pc' = [pc EXCEPT ![p] = sf[p].ko]
          /\ sf' = [sf EXCEPT ![p] = NoSF]
          /\ cur' = IF p = Run THEN NoFrame ELSE cur
          /\ UNCHANGED wire
    /\ UNCHANGED <<next_id, ports, closed, plock, carrier, nwrites, nfs,
                   fskind, status, notified, newc, sid, nread, delivered,
                   calls, fsid, init_id, expired, ranOut, collided>>

\* what a SendFrame_Begin step leaves alone
SendFrame_Rest ==
    UNCHANGED <<next_id, ports, closed, plock, carrier, nfs, fskind, status,
                notified, newc, sid, nread, delivered, calls, fsid, init_id,
                expired, ranOut,
                collided>>

(* --------------------------- Session.Close ----------------------------- *)

\* SpeedCounter.Close of Readcnt and Writecnt
SpeedCounter_Close == "nil"

\* the FrameSenders in the port table
InTable(pt) == {pt[i] : i \in Ids} \ {Nil}

\* Close, by the read loop's defer or by a caller: after the counters are
\* closed, under plock.RLock, CloseFrame is dispatched to every entry and
\* closed is set; the deferred Conn.Close ends it
Close(p) ==
    /\ pc[p] = "close"
    /\ IF SpeedCounter_Close # "nil"
       THEN UNCHANGED <<notified, closed>>
       ELSE /\ PLockFree(plock)
            /\ notified' = notified \cup InTable(ports)
            /\ closed' = TRUE
    /\ carrier' = "closed"
    /\ pc' = [pc EXCEPT ![p] = IF p = Run THEN "done" ELSE "idle"]
    /\ UNCHANGED <<next_id, ports, plock, wlock, wire, nwrites, nfs, fskind,
                   status, cur, newc, sf, sid, nread, delivered, calls,
                   fsid, init_id, expired, ranOut, collided, sendFailed>>

(* ---------------------------- Session.Run ------------------------------ *)

\* where the type switch of Run sends a frame
Dispatch(f) ==
    IF f.kind \in ChanKinds THEN "lookup"
    ELSE IF f.kind = "SYN" THEN "on_syn"
    ELSE IF f.kind = "DNS" THEN "on_dns"
    ELSE "read"

\* ReadFrame returns a frame; for a SYN, on_syn's NewConn takes its object
ReadFrame ==
    /\ pc[Run] = "read"
    /\ carrier = "open"
    /\ nread < MaxFrames
    /\ \E f \in InFrames :
        /\ f.kind = "SYN" => nfs < MaxFS
        /\ nread' = nread + 1
        /\ pc' = [pc EXCEPT ![Run] = Dispatch(f)]
        /\ cur' = IF Dispatch(f) = "read" THEN NoFrame
                  ELSE [f EXCEPT !.at = Len(wire)]
        /\ IF f.kind = "SYN"
           THEN /\ nfs' = nfs + 1
                /\ newc' = [newc EXCEPT ![Run] = nfs + 1]
                /\ fskind' = [fskind EXCEPT ![nfs + 1] = "conn"]
                /\ fsid' = [fsid EXCEPT ![nfs + 1] = f.id]
           ELSE UNCHANGED <<nfs, newc, fskind, fsid>>
    /\ UNCHANGED <<next_id, ports, closed, plock, wlock, carrier, wire,
                   nwrites, status, notified, sf, sid, delivered, calls,
                   init_id, expired, ranOut, collided, sendFailed>>

\* ReadFrame returns io.EOF or another error (an unknown kind included):
\* Run returns and its deferred Close runs
ReadFail ==
    /\ pc[Run] = "read"
    /\ pc' = [pc EXCEPT ![Run] = "close"]
    /\ UNCHANGED <<next_id, ports, closed, plock, wlock, carrier, wire,
                   nwrites, nfs, fskind, status, notified, cur, newc, sf, sid,
                   nread, delivered, calls, fsid,
                   init_id, expired, ranOut, collided,
                   sendFailed>>

\* sendFrameInChan, the lookup under plock.RLock
Lookup ==
    /\ pc[Run] = "lookup"
    /\ PLockFree(plock)
    /\ IF IdPresent(ports, cur.id)
       THEN /\ newc' = [newc EXCEPT ![Run] = ports[cur.id]]
            /\ pc' = [pc EXCEPT ![Run] = "deliver"]
            /\ UNCHANGED cur
       ELSE /\ pc' = [pc EXCEPT ![Run] = "close"]
            /\ cur' = NoFrame
            /\ UNCHANGED newc
    /\ UNCHANGED <<next_id, ports, closed, plock, wlock, carrier, wire,
                   nwrites, nfs, fskind, status, notified, sf, sid, nread,
                   delivered, calls, fsid,
                   init_id, expired, ranOut, collided, sendFailed>>

\* the record of one c.SendFrame(f) call of sendFrameInChan
Handed(seq, f, c) == [seq |-> seq, id |-> f.id, fs |-> c]

\* a hand-over that overtakes the earlier ones
Deliver_Front(log, h) == <<h>> \o log

\* the deliveries after one more
Deliver(log, h) == Append(log, h)

\* sendFrameInChan, c.SendFrame(f): the FrameSender takes the frame or
\* returns an error, and an error makes Run return
DeliverFrame ==
    /\ pc[Run] = "deliver"
    /\ \E e \in {"nil", "err"} :
        /\ delivered' = Deliver(delivered, Handed(nread, cur, newc[Run]))
        /\ pc' = [pc EXCEPT ![Run] = IF e = "nil" THEN "read" ELSE "close"]
    /\ cur' = NoFrame
    /\ newc' = [newc EXCEPT ![Run] = Nil]
    /\ UNCHANGED <<next_id, ports, closed, plock, wlock, carrier, wire,
                   nwrites, nfs, fskind, status, notified, sf, sid, nread,
                   calls, fsid, init_id, expired, ranOut, collided, sendFailed>>

(* ----------------------------- on_syn ---------------------------------- *)

\* the reply to a colliding SYN with another error code
IdExistReply_WrongCode(id) == NewFrameResult(id, "CONNFAILED")

\* the frame on_syn answers a colliding SYN with
IdExistReply(id) == NewFrameResult(id, "IDEXIST")

\* a read loop that makes the target dial itself
SynReturn_Inline(e) == IF e = "nil" THEN "dial" ELSE "syn_reply"

\* where the read loop goes after PutIntoId: back to reading when the dial
\* task was started, to the RESULT(IDEXIST) reply otherwise
SynReturn(e) == IF e = "nil" THEN "read" ELSE "syn_reply"

\* whether on_syn starts the target dial, given PutIntoId's result
StartsDial(e) == e = "nil"

\* on_syn up to PutIntoId: the new Conn goes to SYN_RECV and into the table
\* under the SYN's streamid, and the dial task starts; on IDEXIST the reply
\* is sent next
OnSyn ==
    /\ pc[Run] = "on_syn"
    /\ PLockFree(plock)
    /\ LET c == newc[Run]
           r == PutIntoId(ports, cur.id, c)
       IN /\ status' = [status EXCEPT ![c] = "SYN_RECV"]
          /\ ports' = r.ports
          /\ plock' = AfterOp(Run, r.unlocked)
          /\ collided' = (collided \/ r.err = "IDEXIST")
          /\ IF StartsDial(r.err)
             THEN pc' = [pc EXCEPT ![Run] = SynReturn(r.err),
                                   ![Task(c)] = "dial"]
             ELSE pc' = [pc EXCEPT ![Run] = SynReturn(r.err)]
          /\ cur' = IF r.err = "nil" THEN NoFrame ELSE cur
          /\ newc' = [newc EXCEPT ![Run] = Nil]
    /\ UNCHANGED <<next_id, closed, wlock, carrier, wire, nwrites, nfs,
                   fskind, notified, sf, sid, nread, delivered, calls, fsid,
                   init_id, expired, ranOut, sendFailed>>

\* on_syn after IDEXIST: SendFrame(RESULT(IDEXIST)), whose error on_syn
\* returns to Run
SynReply ==
    /\ pc[Run] = "syn_reply"
    /\ SendFrame_Begin(Run, IdExistReply(cur.id), "read", "close")
    /\ SendFrame_Rest

(* ----------------------------- on_dns ---------------------------------- *)

\* what sutils.DefaultLookuper can be, and how Exchange and Pack can end
Lookupers == {"DnsLookup", "other"}
Exchanges == {"ok", "failed"}

\* what on_dns does with a frame, given its payload, the resolver and the
\* end of the exchange: the error it returns to Run, or "nil" with the
\* place it goes on at
OnDnsResult(x, lookuper, exch) ==
    IF x = "garbage" THEN [err |-> "ErrDnsMsgIllegal", to |-> "close"]
    ELSE IF x = "response" THEN [err |-> "nil", to |-> "lookup"]
    ELSE IF lookuper # "DnsLookup"
    THEN [err |-> "ErrNoDnsServer", to |-> "close"]
    ELSE IF exch # "ok" THEN [err |-> "nil", to |-> "read"]
    ELSE [err |-> "nil", to |-> "dns_reply"]

\* on_dns up to the reply: a payload that does not unpack and a missing
\* resolver are errors returned to Run; a response goes to sendFrameInChan;
\* a failed Exchange or Pack returns nil
OnDns ==
    /\ pc[Run] = "on_dns"
    /\ \E lookuper \in Lookupers, exch \in Exchanges :
        LET r == OnDnsResult(cur.x, lookuper, exch)
        IN /\ pc' = [pc EXCEPT ![Run] = r.to]
           /\ cur' = IF r.to \in {"lookup", "dns_reply"} THEN cur ELSE NoFrame
    /\ UNCHANGED <<next_id, ports, closed, plock, wlock, carrier, wire,
                   nwrites, nfs, fskind, status, notified, newc, sf, sid,
                   nread, delivered, calls, fsid,
                   init_id, expired, ranOut, collided,
                   sendFailed>>

\* on_dns, the reply: SendFrame(DNS) on the query's streamid, whose error
\* on_dns returns to Run
DnsReply ==
    /\ pc[Run] = "dns_reply"
    /\ SendFrame_Begin(Run, NewFrameDns(cur.id, "response"), "read", "close")
    /\ SendFrame_Rest

(* ------------------- the target-dial task of on_syn -------------------- *)

\* Conn.CheckAndSetStatus(from, to): the status after it, and its error
CheckAndSetStatus(st, from, to) ==
    IF st = from THEN [status |-> to, err |-> "nil"]
    ELSE [status |-> st, err |-> "StatusError"]

\* the dial of the SYN's target failed: SendFrame(RESULT(CONNFAILED));
\* c.Final() follows whatever SendFrame returned
TaskSendFailed(c) ==
    /\ pc[Task(c)] = "dial"
    /\ SendFrame_Begin(Task(c), NewFrameResult(fsid[c], "CONNFAILED"),
                       "t_final", "t_final")
    /\ SendFrame_Rest

\* c.Final(): the stream leaves the port table and is closed
TaskFinal(c) ==
    /\ pc[Task(c)] = "t_final"
    /\ PLockFree(plock)
    /\ LET r == RemovePort(ports, fsid[c])
       IN /\ ports' = r.ports
          /\ plock' = AfterOp(Task(c), r.unlocked)
    /\ status' = [status EXCEPT ![c] = "CLOSED"]
    /\ pc' = [pc EXCEPT ![Task(c)] = "done"]
    /\ UNCHANGED <<next_id, closed, wlock, carrier, wire, nwrites, nfs,
                   fskind, notified, cur, newc, sf, sid, nread,
                   delivered, calls, fsid,
                   init_id, expired, ranOut, collided, sendFailed>>

\* the dial of the SYN's target succeeded: SendFrame(RESULT(NONE)); on its
\* error the task returns
TaskSendOk(c) ==
    /\ pc[Task(c)] = "dial"
    /\ SendFrame_Begin(Task(c), NewFrameResult(fsid[c], "NONE"),
                       "t_est", "done")
    /\ SendFrame_Rest

\* CheckAndSetStatus(SYN_RECV, EST), then the copy between the dialed
\* connection and the stream starts
TaskEst(c) ==
    /\ pc[Task(c)] = "t_est"
    /\ LET r == CheckAndSetStatus(status[c], "SYN_RECV", "EST")
       IN /\ status' = [status EXCEPT ![c] = r.status]
    /\ pc' = [pc EXCEPT ![Task(c)] = "done"]
    /\ UNCHANGED <<next_id, ports, closed, plock, wlock, carrier, wire,
                   nwrites, nfs, fskind, notified, cur, newc, sf, sid, nread,
                   delivered, calls, fsid,
                   init_id, expired, ranOut, collided, sendFailed>>

(* ---------------------------- Session.Dial ----------------------------- *)

\* a caller starts Dial: NewConn(0, ...)
DialStart(u) ==
    /\ pc[u] = "idle"
    /\ calls[u] < MaxCalls
    /\ nfs < MaxFS
    /\ calls' = [calls EXCEPT ![u] = @ + 1]
    /\ nfs' = nfs + 1
    /\ newc' = [newc EXCEPT ![u] = nfs + 1]
    /\ fskind' = [fskind EXCEPT ![nfs + 1] = "conn"]
    /\ pc' = [pc EXCEPT ![u] = "dial_put"]
    /\ UNCHANGED <<next_id, ports, closed, plock, wlock, carrier, wire,
                   nwrites, status, notified, cur, sf, sid, nread,
                   delivered, fsid,
                   init_id, expired, ranOut, collided, sendFailed>>

\* Dial: PutIntoNextId(c) and c.streamid = streamid
DialPut(u) ==
    /\ pc[u] = "dial_put"
    /\ PLockFree(plock)
    /\ LET c == newc[u]
           r == PutIntoNextId(ports, next_id, c)
       IN /\ ports' = r.ports
          /\ next_id' = r.next_id
          /\ plock' = AfterOp(u, r.unlocked)
          /\ ranOut' = (ranOut \/ r.err = "RunOut")
          /\ IF r.err = "nil"
             THEN /\ sid' = [sid EXCEPT ![u] = r.id]
                  /\ fsid' = [fsid EXCEPT ![c] = r.id]
                  /\ pc' = [pc EXCEPT ![u] = "dial_syn"]
                  /\ UNCHANGED newc
             ELSE /\ pc' = [pc EXCEPT ![u] = "idle"]
                  /\ newc' = [newc EXCEPT ![u] = Nil]
                  /\ UNCHANGED <<sid, fsid>>
    /\ UNCHANGED <<closed, wlock, carrier, wire, nwrites, nfs, fskind,
                   status, notified, cur, sf, nread, delivered, calls,
                   init_id, expired, collided, sendFailed>>

\* c.SendSynAndWait: the SYN goes out through Session.SendFrame
DialSyn(u) ==
    /\ pc[u] = "dial_syn"
    /\ SendFrame_Begin(u, NewFrameSyn(sid[u]), "dial_wait", "dial_wait")
    /\ SendFrame_Rest

\* c.SendSynAndWait: the wait for RESULT ends and Dial returns
DialWait(u) ==
    /\ pc[u] = "dial_wait"
    /\ pc' = [pc EXCEPT ![u] = "idle"]
    /\ newc' = [newc EXCEPT ![u] = Nil]
    /\ sid' = [sid EXCEPT ![u] = NoId]
    /\ UNCHANGED <<next_id, ports, closed, plock, wlock, carrier, wire,
                   nwrites, nfs, fskind, status, notified, cur, sf, nread,
                   delivered, calls, fsid,
                   init_id, expired, ranOut, collided, sendFailed>>

(* -------------------------- Session.LookupIP --------------------------- *)

\* a caller starts LookupIP on a host that is not a literal address:
\* CreateChanFrameSender(0)
LookupStart(u) ==
    /\ pc[u] = "idle"
    /\ calls[u] < MaxCalls
    /\ nfs < MaxFS
    /\ calls' = [calls EXCEPT ![u] = @ + 1]
    /\ nfs' = nfs + 1
    /\ newc' = [newc EXCEPT ![u] = nfs + 1]
    /\ fskind' = [fskind EXCEPT ![nfs + 1] = "chan"]
    /\ pc' = [pc EXCEPT ![u] = "lk_put"]
    /\ UNCHANGED <<next_id, ports, closed, plock, wlock, carrier, wire,
                   nwrites, status, notified, cur, sf, sid, nread,
                   delivered, fsid,
                   init_id, expired, ranOut, collided, sendFailed>>

\* LookupIP: PutIntoNextId(&cfs); on its error LookupIP returns
LookupPut(u) ==
    /\ pc[u] = "lk_put"
    /\ PLockFree(plock)
    /\ LET r == PutIntoNextId(ports, next_id, newc[u])
       IN /\ ports' = r.ports
          /\ next_id' = r.next_id
          /\ plock' = AfterOp(u, r.unlocked)
          /\ ranOut' = (ranOut \/ r.err = "RunOut")
          /\ IF r.err = "nil"
             THEN /\ sid' = [sid EXCEPT ![u] = r.id]
                  /\ pc' = [pc EXCEPT ![u] = "lk_send"]
                  /\ UNCHANGED newc
             ELSE /\ pc' = [pc EXCEPT ![u] = "idle"]
                  /\ newc' = [newc EXCEPT ![u] = Nil]
                  /\ UNCHANGED sid
    /\ UNCHANGED <<closed, wlock, carrier, wire, nwrites, nfs, fskind,
                   status, notified, cur, sf, nread, delivered, calls,
                   fsid, init_id, expired, collided, sendFailed>>

\* LookupIP: MakeDnsFrame fails
LookupPackFail(u) ==
    /\ pc[u] = "lk_send"
    /\ pc' = [pc EXCEPT ![u] = "lk_fail"]
    /\ UNCHANGED <<next_id, ports, closed, plock, wlock, carrier, wire,
                   nwrites, nfs, fskind, status, notified, cur, newc, sf,
                   sid, nread, delivered, calls, fsid,
                   init_id, expired, ranOut, collided,
                   sendFailed>>

\* LookupIP: SendFrame(DNS request)
LookupSend(u) ==
    /\ pc[u] = "lk_send"
    /\ SendFrame_Begin(u, NewFrameDns(sid[u], "query"), "lk_wait", "lk_fail")
    /\ SendFrame_Rest

\* whether a frame was handed to the FrameSender c
Received(log, c) == \E k \in 1 .. Len(log) : log[k].fs = c

\* LookupIP: RecvWithTimeout returns a frame that was handed to the waiter,
\* which ParseDnsFrame takes or rejects, or it returns the timeout; LookupIP
\* is left with err nil ("lk_remove") or with an error ("lk_fail")
LookupWait(u) ==
    /\ pc[u] = "lk_wait"
    /\ \/ /\ Received(delivered, newc[u])
          /\ \E e \in {"nil", "ErrDnsMsgIllegal"} :
                pc' = [pc EXCEPT ![u] =
                          IF e = "nil" THEN "lk_remove" ELSE "lk_fail"]
          /\ UNCHANGED expired
       \/ /\ pc' = [pc EXCEPT ![u] = "lk_fail"]
          /\ expired' = expired \cup {sid[u]}
    /\ UNCHANGED <<next_id, ports, closed, plock, wlock, carrier, wire,
                   nwrites, nfs, fskind, status, notified, cur, newc, sf, sid,
                   nread, delivered, calls, fsid, init_id, ranOut, collided,
                   sendFailed>>

\* LookupIP's deferred RemovePort(streamid)
LookupRemove(u) ==
    /\ pc[u] \in {"lk_remove", "lk_fail"}
    /\ PLockFree(plock)
    /\ LET r == RemovePort(ports, sid[u])
       IN /\ ports' = r.ports
          /\ plock' = AfterOp(u, r.unlocked)
    /\ pc' = [pc EXCEPT ![u] = "idle"]
    /\ newc' = [newc EXCEPT ![u] = Nil]
    /\ sid' = [sid EXCEPT ![u] = NoId]
    /\ UNCHANGED <<next_id, closed, wlock, carrier, wire, nwrites, nfs,
                   fskind, status, notified, cur, sf, nread, delivered,
                   calls, fsid, init_id, expired, ranOut, collided, sendFailed>>

\* a caller starts Close (or CloseFrame, which is Close)
CloseStart(u) ==
    /\ pc[u] = "idle"
    /\ calls[u] < MaxCalls
    /\ calls' = [calls EXCEPT ![u] = @ + 1]
    /\ pc' = [pc EXCEPT ![u] = "close"]
    /\ UNCHANGED <<next_id, ports, closed, plock, wlock, carrier, wire,
                   nwrites, nfs, fskind, status, notified, cur, newc, sf, sid,
                   nread, delivered, fsid, init_id, expired, ranOut, collided,
                   sendFailed>>

(* -------------------------- the specification -------------------------- *)

Next ==
    \/ ReadFrame
    \/ ReadFail
    \/ Lookup
    \/ DeliverFrame
    \/ OnSyn
    \/ SynReply
    \/ OnDns
    \/ DnsReply
    \/ \E p \in Procs : SendFrame_Write(p)
    \/ \E p \in {Run} \cup Users : Close(p)
    \/ \E c \in FSs : TaskSendFailed(c)
    \/ \E c \in FSs : TaskFinal(c)
    \/ \E c \in FSs : TaskSendOk(c)
    \/ \E c \in FSs : TaskEst(c)
    \/ \E u \in Users : DialStart(u)
    \/ \E u \in Users : DialPut(u)
    \/ \E u \in Users : DialSyn(u)
    \/ \E u \in Users : DialWait(u)
    \/ \E u \in Users : LookupStart(u)
    \/ \E u \in Users : LookupPut(u)
    \/ \E u \in Users : LookupPackFail(u)
    \/ \E u \in Users : LookupSend(u)
    \/ \E u \in Users : LookupWait(u)
    \/ \E u \in Users : LookupRemove(u)
    \/ \E u \in Users : CloseStart(u)

Spec == Init /\ [][Next]_vars

\* the steps a goroutine takes by itself once it is where it is: all but
\* the arrival of a frame or of a read error on an open carrier, and the
\* start of a call
Step(p) ==
    \/ SendFrame_Write(p)
    \/ Close(p)
    \/ /\ p = Run
       /\ \/ Lookup
          \/ DeliverFrame
          \/ OnSyn
          \/ SynReply
          \/ OnDns
          \/ DnsReply
          \/ (carrier = "closed" /\ ReadFail)
    \/ \E c \in FSs :
        /\ p = Task(c)
        /\ \/ TaskSendFailed(c)
           \/ TaskFinal(c)
           \/ TaskSendOk(c)
           \/ TaskEst(c)
    \/ /\ p \in Users
       /\ \/ DialPut(p)
          \/ DialSyn(p)
          \/ DialWait(p)
          \/ LookupPut(p)
          \/ LookupPackFail(p)
          \/ LookupSend(p)
          \/ LookupWait(p)
          \/ LookupRemove(p)

\* every goroutine that can take a step is scheduled; the peer and the
\* callers owe nothing
FairSpec == Spec /\ \A p \in Procs : WF_vars(Step(p))

\* the same session late in its life
LateSpec == InitLate /\ [][Next]_vars

FairLateSpec == LateSpec /\ \A p \in Procs : WF_vars(Step(p))

(* ------------------------------ claims --------------------------------- *)

\* the places where a process is about to take plock for a port-table
\* operation other than Close
PortOpPcs ==
    {"lookup", "on_syn", "dial_put", "lk_put", "lk_remove", "lk_fail",
     "t_final"}

\* a collision happened and the whole RESULT(IDEXIST) frame is on the wire
Answered ==
    /\ collided
    /\ \E k \in 1 .. Len(wire) :
        wire[k].f.x = "IDEXIST" /\ wire[k].part = FrameParts

\* C1: after an id collision the session keeps working: every port-table
\* operation that a process of the session is about to make (the dispatch
\* lookup of the read loop, PutIntoId for a later SYN, PutIntoNextId for a
\* Dial or a LookupIP, RemovePort) completes.
C1_SurvivesIdCollision ==
    \A p \in Procs :
        [](Answered /\ pc[p] \in PortOpPcs => <>(pc[p] \notin PortOpPcs))

\* C2: a SYN for a streamid that is in the port table: PutIntoId fails with
\* IDEXIST and leaves the table as it is, no dial task starts, and the next
\* thing the read loop does is SendFrame of RESULT(IDEXIST) with that
\* streamid, whose first piece goes on the wire unless the write fails.
C2_IdExistRejected ==
    /\ [][(pc[Run] = "on_syn" /\ IdPresent(ports, cur.id)
              /\ pc'[Run] # "on_syn")
            => /\ PutIntoId(ports, cur.id, newc[Run]).err = "IDEXIST"
               /\ ports' = ports
               /\ \A c \in FSs : pc'[Task(c)] = pc[Task(c)]
               /\ pc'[Run] = "syn_reply"
               /\ cur' = cur]_vars
    /\ [][(pc[Run] = "syn_reply" /\ pc'[Run] # "syn_reply")
            => \/ /\ wire' = Append(wire,
                        Piece(nwrites', Frame("RESULT", cur.id, "IDEXIST"), 1))
                  /\ sf'[Run].f = Frame("RESULT", cur.id, "IDEXIST")
               \/ /\ wire' = wire
                  /\ Run \in sendFailed']_vars

\* C2 witness: a collision happened and the whole RESULT(IDEXIST) frame is
\* on the wire
C2_Witness == Answered /\ pc[Run] = "read"

\* C3: every streamid PutIntoNextId returned has the parity of the next_id
\* the session was created with.
C3_ParityKept ==
    \A u \in Users : sid[u] # NoId => sid[u] % 2 = init_id % 2

\* C4: PutIntoNextId and PutIntoId never replace an entry: a FrameSender
\* that was given a streamid and is still in use is the entry under that
\* streamid, no FrameSender is under two streamids, and an occupied id
\* changes only by a RemovePort, which empties it.
C4_NoEntryReplaced ==
    /\ [](\A u \in Users : sid[u] # NoId => ports[sid[u]] = newc[u])
    /\ [](\A c \in FSs :
            (pc[Task(c)] # "none" /\ status[c] \in {"SYN_RECV", "EST"})
                => ports[fsid[c]] = c)
    /\ [](\A i, j \in Ids : (i # j /\ ports[i] # Nil) => ports[i] # ports[j])
    /\ [][\A i \in Ids :
            (ports[i] # Nil /\ ports'[i] # ports[i])
                => /\ ports'[i] = Nil
                   /\ \E p \in Procs :
                        pc[p] \in {"lk_remove", "lk_fail", "t_final"}
                            /\ pc'[p] # pc[p]]_vars

\* C4 witness: an incoming SYN met the streamid a caller's PutIntoNextId
\* had taken, and the caller's entry is still there
C4_Witness ==
    /\ collided
    /\ \E u \in Users : sid[u] # NoId /\ ports[sid[u]] = newc[u]

\* C5: the frames handed to the FrameSender of one streamid are handed over
\* in the order in which they were read.
C5_WireOrder ==
    \A a, b \in 1 .. Len(delivered) :
        (a < b /\ delivered[a].id = delivered[b].id)
            => delivered[a].seq < delivered[b].seq

\* C5 witness: two frames of one streamid were handed over
C5_Witness ==
    \E a, b \in 1 .. Len(delivered) :
        a < b /\ delivered[a].id = delivered[b].id

\* C6: the pieces of one frame write are contiguous on the wire and in
\* their order.
C6_NoInterleave ==
    \A a, b \in 1 .. Len(wire) :
        (a < b /\ wire[a].w = wire[b].w)
            => /\ wire[b].part = wire[a].part + (b - a)
               /\ \A k \in a .. b : wire[k].w = wire[a].w

\* the places where a process is about to call SendFrame
SendPcs == {"syn_reply", "dns_reply", "dial", "dial_syn", "lk_send"}

\* C6 witness: the frames of two processes are whole on the wire, and one
\* of them had to wait for the other: it is about to send while the other
\* is between two pieces
C6_Witness ==
    \E p, q \in Procs :
        /\ p # q
        /\ pc[p] = "sf_write"
        /\ pc[q] \in SendPcs
        /\ \E k \in 1 .. Len(wire) : wire[k].part = FrameParts

\* C7: a frame for a streamid that is not in the port table makes the read
\* loop stop and the session close, with CloseFrame dispatched to every
\* entry of the port table (unless the id is put in the table before the
\* lookup is made).
C7_UnknownStreamCloses ==
    \A i \in Ids :
        []((pc[Run] = "lookup" /\ cur.id = i /\ ~IdPresent(ports, i))
            => <>(IdPresent(ports, i)
                    \/ (closed /\ InTable(ports) \subseteq notified)))

\* C8: when SendFrame returns an error to the target-dial task, the session
\* is closed afterwards.
C8_SendErrorCloses ==
    \A c \in FSs : [](Task(c) \in sendFailed => <>closed)

\* C9: every Close that is called sets closed and dispatches CloseFrame to
\* every entry of the port table.
C9_CloseCloses ==
    \A p \in {Run} \cup Users :
        [](pc[p] = "close" => <>(closed /\ InTable(ports) \subseteq notified))

\* C10: once the session is closed, the port table holds no FrameSender
\* that has not been sent CloseFrame.
C10_NoPortAfterClose ==
    closed => InTable(ports) \subseteq notified

\* C11: when PutIntoNextId runs out of streamids it inserts nothing and
\* leaves next_id where it was, and the session goes on: every port-table
\* operation a process is about to make after that completes.
C11_RunOutIsLocal ==
    /\ [][\A u \in Users :
            (pc[u] \in {"dial_put", "lk_put"} /\ pc'[u] = "idle")
                => (ports' = ports /\ next_id' = next_id)]_vars
    /\ \A p \in Procs :
        [](ranOut /\ pc[p] \in PortOpPcs => <>(pc[p] \notin PortOpPcs))

\* C12: PutIntoNextId never returns streamid 0.
C12_ZeroReserved ==
    \A u \in Users : sid[u] # 0

\* the step in which LookupIP returns after it was given a streamid
LookupReturns(u) ==
    /\ sid[u] # NoId
    /\ fskind[newc[u]] = "chan"
    /\ pc[u] # "idle"
    /\ pc'[u] = "idle"

\* C13: when a LookupIP call that was given streamid k returns, on any of
\* its exits, k is not in the port table and neither is the call's waiter;
\* and a wait that ends without a frame for the waiter ends in an error.
C13_LookupRemovesPort ==
    /\ [][\A u \in Users :
            LookupReturns(u)
                => /\ pc[u] \in {"lk_remove", "lk_fail"}
                   /\ ~IdPresent(ports', sid[u])
                   /\ newc[u] \notin InTable(ports')]_vars
    /\ [][\A u \in Users :
            (pc[u] = "lk_wait" /\ pc'[u] # "lk_wait"
                /\ ~Received(delivered, newc[u]))
                => pc'[u] = "lk_fail"]_vars

\* C13 witness: a lookup timed out and has returned, and its streamid is
\* not in the port table
C13_Witness ==
    \E u \in Users, k \in expired :
        pc[u] = "idle" /\ calls[u] > 0 /\ ~IdPresent(ports, k)

\* the whole DNS request of streamid f.id was on the wire when the frame f
\* was read
SawQuery(f) ==
    \E k \in 1 .. f.at :
        /\ wire[k].f = NewFrameDns(f.id, "query")
        /\ wire[k].part = FrameParts

\* C14: a lookup that times out leaves the session open, and a DNS response
\* that was sent for its request and is dispatched after the waiter was
\* removed is ignored: the read loop goes on reading.
C14_TimeoutIsLocal ==
    /\ [][\A u \in Users :
            (pc[u] = "lk_wait" /\ pc'[u] = "lk_fail")
                => (closed' = closed /\ carrier' = carrier)]_vars
    /\ [][(pc[Run] = "lookup" /\ cur.kind = "DNS" /\ cur.id \in expired
              /\ SawQuery(cur)
              /\ ~IdPresent(ports, cur.id) /\ pc'[Run] # "lookup")
            => pc'[Run] = "read"]_vars

\* C15: a DNS frame that cannot be served (the payload does not unpack, no
\* resolver, the resolver fails) is dropped: nothing is written and the read
\* loop goes on reading.
C15_UnservedDnsDropped ==
    [][(pc[Run] = "on_dns" /\ pc'[Run] # "on_dns"
            /\ \/ cur.x = "garbage"
               \/ cur.x = "query" /\ pc'[Run] # "dns_reply")
        => (pc'[Run] = "read" /\ wire' = wire)]_vars

\* C16: when the target dial of an accepted SYN has failed and the
\* RESULT(CONNFAILED) was sent, the stream is finalized: it ends CLOSED and
\* out of the port table.
C16_DialFailureFinalizes ==
    \A c \in FSs :
        [](pc[Task(c)] = "t_final"
            => <>(status[c] = "CLOSED" /\ ports[fsid[c]] # c))

\* C17: on_syn hands the target dial to a task and returns to the read
\* loop: after an accepted SYN the read loop is reading again while the
\* dial is pending, and a pending dial keeps no frame from being read.
C17_DialDoesNotBlockRun ==
    /\ [][(pc[Run] = "on_syn" /\ ~IdPresent(ports, cur.id)
              /\ pc'[Run] # "on_syn")
            => (pc'[Run] = "read" /\ pc'[Task(newc[Run])] = "dial")]_vars
    /\ []((pc[Run] = "read" /\ carrier = "open" /\ nread < MaxFrames
              /\ \E c \in FSs : pc[Task(c)] = "dial")
            => ENABLED ReadFrame)

\* C17 witness: a frame for another streamid, read after the SYN, has been
\* handed over while the SYN's dial is pending
C17_Witness ==
    \E c \in FSs, k \in 1 .. Len(delivered) :
        /\ pc[Task(c)] = "dial"
        /\ pc[Run] = "read"
        /\ delivered[k].id # fsid[c]
        /\ delivered[k].seq = nread
        /\ nread > 1

\* the whole RESULT(NONE) frame of streamid f.id was on the wire when the
\* frame f was read
SawResultNone(f) ==
    \E k \in 1 .. f.at :
        /\ wire[k].f = NewFrameResult(f.id, "NONE")
        /\ wire[k].part = FrameParts

\* C18: a DATA frame that the peer sent after RESULT(NONE) for a stream it
\* initiated is handed to the stream in EST or FIN_SENT, never in SYN_RECV.
C18_DataOnlyWhenEst ==
    (/\ pc[Run] = "deliver"
     /\ cur.kind = "DATA"
     /\ newc[Run] \in FSs
     /\ pc[Task(newc[Run])] # "none"
     /\ SawResultNone(cur))
        => status[newc[Run]] \in {"EST", "FIN_SENT"}

\* C19: the port-table lock is free whenever no port-table operation is
\* executing (the operations are single steps here, so in every state).
C19_LockReleased ==
    plock = Free

\* C20: when the dial task of a stream has ended, the stream has left
\* SYN_RECV: it is in EST or it is finalized.
C20_LeavesSynRecv ==
    \A c \in FSs :
        pc[Task(c)] = "done" => status[c] \in {"EST", "CLOSED"}

====
